---- MODULE Spec2Model ----
(***************************************************************************)
(* sqs-buffer: the memory buffer (lib/buffers/memory.js, class Memory) and *)
(* the receiver (class Receiver) that polls the queue service, routes the  *)
(* received messages to the buffer or to the application callback, and     *)
(* deletes the messages the application acknowledges.                      *)
(*                                                                         *)
(* Two specifications share the variables:                                 *)
(*   BatcherSpec  a Memory buffer on its own, driven by add() calls of     *)
(*                single items and of arrays and by its flush timer;       *)
(*   Spec         a constructed Receiver with its queue service (SQS) and  *)
(*                its application callback (messageReceiver).              *)
(*                                                                         *)
(* The SQS client answers asynchronously: every completion of a call is an *)
(* action of its own.  A handler runs to completion (one JavaScript task,  *)
(* with the microtasks it queues), so an action is one whole handler.      *)
(* Listeners are attached to every notification (as in test/consumer.js),  *)
(* so emit() returns normally.                                             *)
(***************************************************************************)
EXTENDS Integers, Sequences, FiniteSets

VARIABLES
    batchSize,    \* Receiver.batchSize             (options.batchSize || 1)
    bufferSize,   \* Receiver/Memory.bufferSize     (0: not configured, falsy)
    stopped,      \* Receiver.stopped
    inflight,     \* sqs.receiveMessage calls issued and not yet answered
    authTimers,   \* pending setTimeout(this._poll, authenticationErrorTimeout)
    items,        \* Memory.items
    timerId,      \* Memory.timerId (FALSE: null, TRUE: a live timer)
    timeouts,     \* the setTimeout(_flushBound, bufferTimeout) timeouts: .live the
                  \* ones not fired nor cleared, .id the one timerId holds (0: null),
                  \* each named by the ordinal of the add() call that set it
    nextId,       \* the id the queue service gives to its next delivery
    deliveries,   \* receives the queue service has answered with messages
    handedTimes,  \* handedTimes[i]: times message i was handed to messageReceiver
    pending,      \* the sets handed to messageReceiver and not acknowledged yet
    acks,         \* the deleteMessage() calls whose SQS calls are not all answered
    starts,       \* start() calls that found the receiver stopped
    crashed,      \* an uncaught exception has ended the process
    flushes,      \* BatcherSpec: every 'flush' payload, in emission order
    added,        \* BatcherSpec: the items of every add() call, in call order
    fx,           \* what the last handler did: notifications and SQS calls
    options,      \* the argument of the constructor; an option is <<>> when it
                  \* is omitted and <<v>> when it is given with value v
    made          \* what the constructor call gave: an instance or an Error

vars == <<batchSize, bufferSize, stopped, inflight, authTimers, items, timerId,
          timeouts, nextId, deliveries, handedTimes, pending, acks, starts, crashed,
          flushes, added, fx, options, made>>

(***************************************************************************)
(* Bounds of the model.                                                    *)
(***************************************************************************)
\* BatcherSpec: largest bufferSize, add() calls, items added in all
MaxCap == 3
MaxAdds == 4
MaxItems == 6
\* Spec: receives the queue service answers with messages, start() calls that
\* find the receiver stopped
MaxDeliveries == 2
MaxStarts == 2
\* ConstructorSpec: largest batchSize and bufferSize options given
MaxBatchOption == 11
MaxBufferOption == 12

(***************************************************************************)
(* Program constants.                                                      *)
(***************************************************************************)
\* messages.splice(0, 10): entries per deleteMessageBatch call
DeleteBatchLimit == 10

(***************************************************************************)
(* Helpers on sequences.                                                   *)
(***************************************************************************)
\* Array.prototype.slice(from, to) with 0-based from, exclusive to
slice(s, from, to) ==
    SubSeq(s, from + 1, IF to > Len(s) THEN Len(s) ELSE to)

RECURSIVE Concat(_)
Concat(ss) ==
    IF ss = <<>> THEN <<>> ELSE Head(ss) \o Concat(Tail(ss))

Range(s) == {s[i] : i \in DOMAIN s}

(***************************************************************************)
(* Memory buffer (lib/buffers/memory.js).  A buffer value b is             *)
(* [items, timerId, timeouts, now, out]: out collects the 'flush' payloads  *)
(* emitted by the call, in order; now is the ordinal of the add() call.    *)
(***************************************************************************)
\* _startTimer() that sets a new timeout while one is live
_startTimer_restarts(b) ==
    [b EXCEPT !.timerId = TRUE,
              !.timeouts = [live |-> @.live \cup {b.now}, id |-> b.now]]

\* if (!this.timerId) this.timerId = setTimeout(this._flushBound, bufferTimeout)
_startTimer(b) ==
    IF ~b.timerId
    THEN [b EXCEPT !.timerId = TRUE,
                   !.timeouts = [live |-> @.live \cup {b.now}, id |-> b.now]]
    ELSE b

\* _stopTimer() without its clearTimeout: the timeout stays live
_stopTimer_noClearTimeout(b) ==
    IF b.timerId
    THEN [b EXCEPT !.timerId = FALSE, !.timeouts.id = 0]
    ELSE b

\* if (this.timerId) { clearTimeout(this.timerId); this.timerId = null }
_stopTimer(b) ==
    IF b.timerId
    THEN [b EXCEPT !.timerId = FALSE,
                   !.timeouts = [live |-> @.live \ {@.id}, id |-> 0]]
    ELSE b

\* _flush() that resets the items without emitting them
_flush_noEmit(b) ==
    LET b1 == _stopTimer(b)
    IN  [b1 EXCEPT !.items = <<>>]

\* _flush() that resets the items before it emits them
_flush_emitsAfterReset(b) ==
    LET b1 == _stopTimer(b)
    IN  [b1 EXCEPT !.out = Append(@, <<>>), !.items = <<>>]

\* this._stopTimer(); this.emit('flush', this.items); this.items = []
_flush(b) ==
    LET b1 == _stopTimer(b)
    IN  [b1 EXCEPT !.out = Append(@, b1.items), !.items = <<>>]

\* the array branch of add() with 'remaining' one item short
RECURSIVE addArray_dropsOverflow(_, _, _)
addArray_dropsOverflow(b, cap, item) ==
    LET currentSize == Len(b.items)
        possibleSize == currentSize + Len(item)
    IN  IF possibleSize > cap
        THEN LET available == cap - currentSize
                 sliced == slice(item, 0, available)
                 remaining == slice(item, available + 1, Len(item))
             IN  addArray_dropsOverflow(
                     _flush([b EXCEPT !.items = @ \o sliced]), cap, remaining)
        ELSE IF possibleSize = cap
        THEN _flush([b EXCEPT !.items = @ \o item])
        ELSE LET b1 == _startTimer(b)
             IN  [b1 EXCEPT !.items = @ \o item]

\* the array branch of add() without the split of an array that overflows
addArray_noSplit(b, cap, item) ==
    LET possibleSize == Len(b.items) + Len(item)
    IN  IF possibleSize >= cap
        THEN _flush([b EXCEPT !.items = @ \o item])
        ELSE LET b1 == _startTimer(b)
             IN  [b1 EXCEPT !.items = @ \o item]

\* add(item), Array.isArray(item): item is the sequence of the array's items
RECURSIVE addArray(_, _, _)
addArray(b, cap, item) ==
    LET currentSize == Len(b.items)
        possibleSize == currentSize + Len(item)
    IN  IF possibleSize > cap
        THEN LET available == cap - currentSize
                 sliced == slice(item, 0, available)
                 remaining == slice(item, available, Len(item))
             IN  addArray(_flush([b EXCEPT !.items = @ \o sliced]), cap, remaining)
        ELSE IF possibleSize = cap
        THEN _flush([b EXCEPT !.items = @ \o item])
        ELSE LET b1 == _startTimer(b)
             IN  [b1 EXCEPT !.items = @ \o item]

\* the single item branch of add() that flushes one item late
addSingle_lateFlush(b, cap, item) ==
    LET b1 == [b EXCEPT !.items = Append(@, item)]
    IN  IF Len(b1.items) > cap THEN _flush(b1) ELSE _startTimer(b1)

\* add(item), item not an array
addSingle(b, cap, item) ==
    LET b1 == [b EXCEPT !.items = Append(@, item)]
    IN  IF Len(b1.items) = cap THEN _flush(b1) ELSE _startTimer(b1)

\* the add() calls made so far: BatcherSpec logs them, the receiver makes one
\* for every receive that returns messages
addCalls == Len(added) + deliveries

Buffer ==
    [items |-> items, timerId |-> timerId, timeouts |-> timeouts,
     now |-> addCalls + 1, out |-> <<>>]

\* the timeout t fires: this._flushBound runs
timeoutFires(t) == _flush([Buffer EXCEPT !.timeouts.live = @ \ {t}])

NoTimeouts == [live |-> {}, id |-> 0]

(***************************************************************************)
(* What a handler did.                                                     *)
(***************************************************************************)
NoFx(op) ==
    [op |-> op,
     pollDec |-> 0,      \* poll decisions (_poll runs)
     recv |-> 0,         \* sqs.receiveMessage calls issued
     stoppedEv |-> 0,    \* 'stopped'
     errorEv |-> 0,      \* 'error'
     procErrEv |-> 0,    \* 'processing:error'
     processedEv |-> 0,  \* 'message:processed'
     receivedEv |-> 0,   \* 'message:received'
     delOne |-> 0,       \* sqs.deleteMessage calls issued
     delBatch |-> 0,     \* sqs.deleteMessageBatch calls issued
     flushN |-> 0,       \* 'flush' notifications of the buffer
     thrown |-> 0,       \* exceptions that left the handler
     code |-> "",        \* err.code of the receive answered, if it failed
     msgs |-> <<>>,      \* the messages of the receive answered, if any
     handed |-> <<>>,    \* the sets messageReceiver was called with
     deleted |-> {},     \* the receipt handles the queue service deleted
     acked |-> <<>>,     \* the deleteMessage() call that came to its end, if any
     log |-> <<>>]       \* the notifications and the calls, in the order made

\* handler effects f followed by notification or call ev with argument arg
Did(f, ev, arg) ==
    [f EXCEPT !.log = Append(@, [ev |-> ev, arg |-> arg])]

\* handler effects f followed by one ev for each argument of args, in order
DidEach(f, ev, args) ==
    [f EXCEPT !.log = @ \o [k \in DOMAIN args |-> [ev |-> ev, arg |-> args[k]]]]

(***************************************************************************)
(* Constructors: Receiver._validate and Memory._validate.                  *)
(***************************************************************************)
\* !options[option]: the option is omitted or its value is falsy (0)
Falsy(o) == o = <<>> \/ o[1] = 0

\* x < y and x <= y of JavaScript on numbers and undefined: false when either
\* side is undefined
Lt(x, y) == x # <<>> /\ y # <<>> /\ x[1] < y[1]

Le(x, y) == x # <<>> /\ y # <<>> /\ x[1] <= y[1]

\* new Error(message): option is the option the message names in brackets
Error(by, message, option) ==
    [kind |-> "Error", by |-> by, message |-> message, option |-> option]

Instance(by) == [kind |-> by, by |-> by, message |-> "", option |-> ""]

NotMade == [kind |-> "none", by |-> "", message |-> "", option |-> ""]

\* REQUIRED_OPTS of the receiver, in the order reversed
Receiver_REQUIRED_OPTS_reversed == <<"messageReceiver", "queueUrl">>

Receiver_REQUIRED_OPTS == <<"queueUrl", "messageReceiver">>

\* REQUIRED_OPTS of the buffer, in the order reversed
Memory_REQUIRED_OPTS_reversed == <<"bufferTimeout", "bufferSize">>

Memory_REQUIRED_OPTS == <<"bufferSize", "bufferTimeout">>

\* REQUIRED_OPTS.forEach(option => { if (!options[option]) throw ... }): the
\* options the loop throws for, in order; the first one is thrown
RECURSIVE Missing(_, _)
Missing(required, opts) ==
    IF required = <<>>
    THEN <<>>
    ELSE (IF Falsy(opts[Head(required)]) THEN <<Head(required)>> ELSE <<>>)
         \o Missing(Tail(required), opts)

\* Receiver._validate(options): the Error it throws, or NotMade when it returns
Receiver_validate(opts) ==
    IF opts.given = <<>>
    THEN Error("Receiver", "Missing required options", "")
    ELSE IF Missing(Receiver_REQUIRED_OPTS, opts) # <<>>
    THEN Error("Receiver", "Missing required option [option].",
               Missing(Receiver_REQUIRED_OPTS, opts)[1])
    ELSE IF Lt(opts.batchSize, <<1>>) \/ Lt(<<10>>, opts.batchSize)
    THEN Error("Receiver", "Invalid SQS [batchSize]. Must be between 1 and 10.", "batchSize")
    ELSE IF Le(opts.bufferSize, opts.batchSize)
    THEN Error("Receiver",
               "Invalid SQS [bufferSize]. Must be greater than [batchSize].",
               "bufferSize")
    ELSE NotMade

\* Memory._validate(options)
Memory_validate(opts) ==
    IF opts.given = <<>>
    THEN Error("Memory", "Missing required options", "")
    ELSE IF Missing(Memory_REQUIRED_OPTS, opts) # <<>>
    THEN Error("Memory", "Missing required option [option].",
               Missing(Memory_REQUIRED_OPTS, opts)[1])
    ELSE NotMade

\* options.batchSize || 1
batchSizeOf(opts) == IF Falsy(opts.batchSize) THEN 1 ELSE opts.batchSize[1]

\* options.bufferSize, 0 standing for every falsy value
bufferSizeOf(opts) == IF Falsy(opts.bufferSize) THEN 0 ELSE opts.bufferSize[1]

\* the options a receiver of the given batchSize and bufferSize was made with
ReceiverOptions(batch, buffer) ==
    [given |-> <<1>>, queueUrl |-> <<1>>, messageReceiver |-> <<1>>,
     batchSize |-> <<batch>>,
     bufferSize |-> IF buffer = 0 THEN <<>> ELSE <<buffer>>,
     bufferTimeout |-> <<>>]

\* the options a buffer of the given bufferSize was made with
MemoryOptions(buffer) ==
    [given |-> <<1>>, queueUrl |-> <<>>, messageReceiver |-> <<>>,
     batchSize |-> <<>>, bufferSize |-> <<buffer>>, bufferTimeout |-> <<10000>>]

(***************************************************************************)
(* BatcherSpec: a Memory buffer on its own.  Items are 1, 2, 3, ... in add *)
(* order.                                                                  *)
(***************************************************************************)
ReceiverIdle ==
    /\ batchSize = 1
    /\ stopped = TRUE
    /\ inflight = 0
    /\ authTimers = 0
    /\ nextId = 1
    /\ deliveries = 0
    /\ handedTimes = <<>>
    /\ pending = {}
    /\ acks = {}
    /\ starts = 0
    /\ crashed = FALSE

BatcherInit ==
    /\ bufferSize \in 1..MaxCap
    /\ options = MemoryOptions(bufferSize)
    /\ Memory_validate(options) = NotMade
    /\ made = Instance("Memory")
    /\ items = <<>>
    /\ timerId = FALSE
    /\ timeouts = NoTimeouts
    /\ flushes = <<>>
    /\ added = <<>>
    /\ fx = NoFx("init")
    /\ ReceiverIdle

receiverVars == <<batchSize, bufferSize, stopped, inflight, authTimers, nextId,
                  deliveries, handedTimes, pending, acks, starts, crashed,
                  options, made>>

AddedItems == Concat(added)

NewItems(n) == [i \in 1..n |-> Len(AddedItems) + i]

BatcherAfter(op, b, calls) ==
    /\ items' = b.items
    /\ timerId' = b.timerId
    /\ timeouts' = b.timeouts
    /\ flushes' = flushes \o b.out
    /\ added' = added \o calls
    /\ fx' = [NoFx(op) EXCEPT !.flushN = Len(b.out)]
    /\ UNCHANGED receiverVars

AddSingle ==
    /\ Len(added) < MaxAdds
    /\ Len(AddedItems) < MaxItems
    /\ BatcherAfter("add", addSingle(Buffer, bufferSize, Len(AddedItems) + 1),
                    <<NewItems(1)>>)

AddArray ==
    \E n \in 0..MaxItems :
        /\ Len(added) < MaxAdds
        /\ Len(AddedItems) + n <= MaxItems
        /\ BatcherAfter("addArray", addArray(Buffer, bufferSize, NewItems(n)),
                        <<NewItems(n)>>)

TimerFire ==
    \E t \in timeouts.live :
        BatcherAfter("timer", timeoutFires(t), <<>>)

BatcherNext == AddSingle \/ AddArray \/ TimerFire

BatcherSpec == BatcherInit /\ [][BatcherNext]_vars

(***************************************************************************)
(* ReentrantSpec: the buffer with a 'flush' subscriber that may call       *)
(* add(item), item not an array, while it is being notified.               *)
(***************************************************************************)
\* the buffer while emit('flush', this.items) notifies the subscribers: the
\* timer is stopped and this.items is still the array that is emitted
duringFlush(b) ==
    LET b1 == _stopTimer(b)
    IN  [b1 EXCEPT !.out = Append(@, b1.items)]

\* _flush() whose subscriber calls add(item) during the notification; the
\* subscriber adds nothing during a flush its own add brings about
_flushAdding(b, cap, item) ==
    LET b2 == addSingle(duringFlush(b), cap, item)
    IN  [b2 EXCEPT !.items = <<>>]

ReentrantAfter(op, b, calls, seen) ==
    /\ items' = b.items
    /\ timerId' = b.timerId
    /\ timeouts' = b.timeouts
    /\ flushes' = flushes \o b.out
    /\ added' = added \o calls
    /\ fx' = Did([NoFx(op) EXCEPT !.flushN = Len(b.out)], "itemsDuringFlush", seen)
    /\ UNCHANGED receiverVars

\* add(item) that fills the buffer, with the subscriber adding during 'flush'
AddSingleAdding ==
    /\ Len(added) + 1 < MaxAdds
    /\ Len(AddedItems) + 1 < MaxItems
    /\ Len(items) + 1 = bufferSize
    /\ LET item == Len(AddedItems) + 1
           b1 == [Buffer EXCEPT !.items = Append(@, item)]
       IN  ReentrantAfter("addAdding", _flushAdding(b1, bufferSize, item + 1),
                          <<<<item>>, <<item + 1>>>>, duringFlush(b1).items)

\* the timeout fires, with the subscriber adding during 'flush'
TimerFireAdding ==
    \E t \in timeouts.live :
        /\ Len(added) < MaxAdds
        /\ Len(AddedItems) < MaxItems
        /\ LET b0 == [Buffer EXCEPT !.timeouts.live = @ \ {t}]
           IN  ReentrantAfter("timerAdding",
                              _flushAdding(b0, bufferSize, Len(AddedItems) + 1),
                              <<NewItems(1)>>, duringFlush(b0).items)

ReentrantNext ==
    AddSingle \/ AddArray \/ TimerFire \/ AddSingleAdding \/ TimerFireAdding

ReentrantSpec == BatcherInit /\ [][ReentrantNext]_vars

(***************************************************************************)
(* Receiver (class Receiver) with its queue service and its application.   *)
(***************************************************************************)
\* a delivery of the queue service: MessageId and the ReceiptHandle of this
\* delivery
Message(i) == [MessageId |-> i, ReceiptHandle |-> 0 - i]

\* (batchSize, bufferSize) of the receivers constructed; _validate accepts
\* batchSize in 1..10 and a bufferSize that is unset or above batchSize
Configs == {<<1, 0>>, <<2, 0>>, <<10, 11>>, <<10, 21>>}

\* the queue service answers a receive with one message or with a full batch
RecvCounts == {1, batchSize}

\* err.code of a failed receive
ErrCodes == {"403", "CredentialsError", "ServiceUnavailable"}

\* err.code === 403 || err.code === 'CredentialsError'
isAuthenticationError(code) == code \in {"403", "CredentialsError"}

\* _handleErrors() that emits every error on 'error'
_handleErrors_allOnError(error, f) ==
    Did([f EXCEPT !.errorEv = @ + 1], "error", <<>>)

\* switch (error.constructor): the notification an error is emitted on
_handleErrors(error, f) ==
    IF error \in {"SQSError", "SQSAuthenticationError"}
    THEN Did([f EXCEPT !.errorEv = @ + 1], "error", <<>>)
    ELSE IF error \in {"ConsumerDeleteError", "ProcessingError"}
    THEN Did([f EXCEPT !.procErrEv = @ + 1], "processing:error", <<>>)
    ELSE f

\* _poll() on the receiver: a receive if it is not stopped, else 'stopped'
_poll(stp, f) ==
    IF ~stp
    THEN Did([f EXCEPT !.pollDec = @ + 1, !.recv = @ + 1], "receiveMessage", <<>>)
    ELSE Did([f EXCEPT !.pollDec = @ + 1, !.stoppedEv = @ + 1], "stopped", <<>>)

\* emit 'message:processed', then _poll()
_messageProcessed(message, stp, f) ==
    _poll(stp, Did([f EXCEPT !.processedEv = @ + 1], "message:processed", message))

\* the callback without the _poll() of its error branch
deleteCallback_noPollOnError(message, err, stp, f) ==
    IF err
    THEN _handleErrors("SQSError", f)
    ELSE _messageProcessed(message, stp, f)

\* the callback that takes a failed deletion for a processed message
deleteCallback_ignoresError(message, err, stp, f) ==
    _messageProcessed(message, stp, f)

\* the callback deleteMessage gives to _deleteMessageOne and to
\* _deleteMessageBatch: err => { if (err) { _handleErrors(err); return _poll() }
\* _messageProcessed(message) }
deleteCallback(message, err, stp, f) ==
    IF err
    THEN _poll(stp, _handleErrors("SQSError", f))
    ELSE _messageProcessed(message, stp, f)

\* chunk.map(item => ({Id: item.MessageId, ReceiptHandle: item.ReceiptHandle}))
Entries(chunk) ==
    [i \in DOMAIN chunk |->
        [Id |-> chunk[i].MessageId, ReceiptHandle |-> chunk[i].ReceiptHandle]]

\* _deleteMessageBatch() that sends all the entries in one call
_deleteMessageBatch_oneCall(messages) ==
    IF Len(messages) = 0 THEN <<>> ELSE <<Entries(messages)>>

\* while (messages.length) { chunk = messages.splice(0, 10); ... }: the Entries
\* of the deleteMessageBatch calls, in the order they are issued
RECURSIVE _deleteMessageBatch(_)
_deleteMessageBatch(messages) ==
    IF Len(messages) = 0
    THEN <<>>
    ELSE <<Entries(slice(messages, 0, DeleteBatchLimit))>>
         \o _deleteMessageBatch(slice(messages, DeleteBatchLimit, Len(messages)))

\* a callback per rejected chunk, in place of the one settling of Promise.all
promiseAllSettles_everyRejection(ack, c, ok) ==
    \/ ~ok
    \/ /\ ~ack.settled
       /\ \A d \in DOMAIN ack.chunks : d # c => ack.chunks[d].st = "ok"

\* Promise.all(promises).then(data => cb()).catch(err => cb(err)): whether the
\* settling of chunk c (ok: resolved) settles the whole, which calls cb once
promiseAllSettles(ack, c, ok) ==
    /\ ~ack.settled
    /\ \/ ~ok
       \/ \A d \in DOMAIN ack.chunks : d # c => ack.chunks[d].st = "ok"

\* a deleteMessage() call as it starts
NewAck(arg, message) ==
    [arg |-> arg,            \* "null", "error", "single" (not an array), "array"
     message |-> message,    \* the caller's messages, as they are now
     messageCopy |-> <<>>,   \* the array _deleteMessageBatch works on, if any
     one |-> "none",         \* the deleteMessage call: none, pending, ok, failed
     handle |-> 0,           \* the ReceiptHandle of the deleteMessage call
     chunks |-> <<>>,        \* the deleteMessageBatch calls: [Entries, st]
     settled |-> FALSE,      \* the callback of the deletion has run
     processedEv |-> 0,
     errorEv |-> 0,
     procErrEv |-> 0,
     pollDec |-> 0,
     recv |-> 0]

\* the notifications and the poll of handler effects f, booked on ack record a
Booked(a, f) ==
    [a EXCEPT !.processedEv = @ + f.processedEv,
              !.errorEv = @ + f.errorEv,
              !.procErrEv = @ + f.procErrEv,
              !.pollDec = @ + f.pollDec,
              !.recv = @ + f.recv]

\* an SQS call of the acknowledgment is still to be answered
AckOpen(a) ==
    \/ a.one = "pending"
    \/ \E c \in DOMAIN a.chunks : a.chunks[c].st = "pending"

cfgVars == <<batchSize, bufferSize, options, made>>

batcherHistory == <<flushes, added>>

Init ==
    /\ \E c \in Configs :
         /\ options = ReceiverOptions(c[1], c[2])
         /\ Receiver_validate(options) = NotMade
         /\ batchSize = batchSizeOf(options) /\ batchSize = c[1]
         /\ bufferSize = bufferSizeOf(options) /\ bufferSize = c[2]
    /\ made = Instance("Receiver")
    /\ stopped = TRUE
    /\ inflight = 0
    /\ authTimers = 0
    /\ items = <<>>
    /\ timerId = FALSE
    /\ timeouts = NoTimeouts
    /\ nextId = 1
    /\ deliveries = 0
    /\ handedTimes = <<>>
    /\ pending = {}
    /\ acks = {}
    /\ starts = 0
    /\ crashed = FALSE
    /\ flushes = <<>>
    /\ added = <<>>
    /\ fx = NoFx("init")

\* the times message i occurs in the sets of 'sets'
Times(i, sets) ==
    Cardinality({kj \in UNION {{<<k, j>> : j \in DOMAIN sets[k]} : k \in DOMAIN sets} :
                    sets[kj[1]][kj[2]].MessageId = i})

\* messageReceiver(messages, done) is called with each set of 'sets'
HandOver(sets, next) ==
    /\ pending' = pending \cup Range(sets)
    /\ handedTimes' = [i \in 1..(next - 1) |->
                         (IF i \in DOMAIN handedTimes THEN handedTimes[i] ELSE 0)
                         + Times(i, sets)]

\* the record of acknowledgment a becomes a2 and handler effects f are the step's
AckStep(a, a2, f) ==
    IF AckOpen(a2)
    THEN /\ acks' = (acks \ {a}) \cup {a2}
         /\ fx' = f
    ELSE /\ acks' = acks \ {a}
         /\ fx' = [f EXCEPT !.acked = <<a2>>]

\* start() without the test of this.stopped
start_pollsWhenRunning ==
    /\ ~crashed
    /\ starts < MaxStarts
    /\ stopped' = FALSE
    /\ starts' = starts + 1
    /\ fx' = _poll(FALSE, NoFx("start"))
    /\ inflight' = inflight + fx'.recv
    /\ UNCHANGED <<cfgVars, authTimers, items, timerId, timeouts, nextId,
                   deliveries, handedTimes, pending, acks, crashed,
                   batcherHistory>>

\* start(): if (this.stopped) { this.stopped = false; this._poll() }
start ==
    /\ ~crashed
    /\ IF stopped
       THEN /\ starts < MaxStarts
            /\ stopped' = FALSE
            /\ starts' = starts + 1
            /\ fx' = _poll(FALSE, NoFx("start"))
       ELSE /\ fx' = NoFx("start")
            /\ UNCHANGED <<stopped, starts>>
    /\ inflight' = inflight + fx'.recv
    /\ UNCHANGED <<cfgVars, authTimers, items, timerId, timeouts, nextId, deliveries,
                   handedTimes, pending, acks, crashed, batcherHistory>>

\* stop() that also clears the flush timer of the buffer
stop_clearsTimer ==
    /\ ~crashed
    /\ stopped' = TRUE
    /\ timerId' = FALSE
    /\ timeouts' = NoTimeouts
    /\ fx' = NoFx("stop")
    /\ UNCHANGED <<cfgVars, inflight, authTimers, items, nextId, deliveries,
                   handedTimes, pending, acks, starts, crashed, batcherHistory>>

\* stop(): this.stopped = true
stop ==
    /\ ~crashed
    /\ stopped' = TRUE
    /\ fx' = NoFx("stop")
    /\ UNCHANGED <<cfgVars, inflight, authTimers, items, timerId, timeouts, nextId,
                   deliveries, handedTimes, pending, acks, starts, crashed,
                   batcherHistory>>

\* the 'message:received' that carries the first message only
emitMessageReceived_firstOnly(messages) ==
    Did([NoFx("receive") EXCEPT !.receivedEv = 1, !.msgs = messages],
        "message:received", <<messages[1]>>)

\* this.emit(this.MESSAGE_RECEIVED_EVENT, messages), the first statement of
\* _internalMessageProcessor
emitMessageReceived(messages) ==
    Did([NoFx("receive") EXCEPT !.receivedEv = 1, !.msgs = messages],
        "message:received", messages)

\* _internalMessageProcessor() that polls again once the set is handed to the
\* buffer or to messageReceiver
_internalMessageProcessor_repolls(messages) ==
    LET f == emitMessageReceived(messages)
    IN  IF bufferSize # 0
        THEN LET b == addArray(Buffer, bufferSize, messages)
             IN  /\ items' = b.items
                 /\ timerId' = b.timerId
                 /\ timeouts' = b.timeouts
                 /\ HandOver(b.out, nextId + Len(messages))
                 /\ fx' = _poll(stopped,
                                DidEach([f EXCEPT !.flushN = Len(b.out),
                                                  !.handed = b.out],
                                        "messageReceiver", b.out))
        ELSE /\ HandOver(<<messages>>, nextId + Len(messages))
             /\ fx' = _poll(stopped,
                            Did([f EXCEPT !.handed = <<messages>>],
                                "messageReceiver", messages))
             /\ UNCHANGED <<items, timerId, timeouts>>

\* _internalMessageProcessor(messages): emit 'message:received', then
\* buffer.add(messages, _pollBound), whose second argument add() does not take,
\* or messageReceiver(messages, _deleteMessageBound)
_internalMessageProcessor(messages) ==
    LET f == emitMessageReceived(messages)
    IN  IF bufferSize # 0
        THEN LET b == addArray(Buffer, bufferSize, messages)
             IN  /\ items' = b.items
                 /\ timerId' = b.timerId
                 /\ timeouts' = b.timeouts
                 /\ HandOver(b.out, nextId + Len(messages))
                 /\ fx' = DidEach([f EXCEPT !.flushN = Len(b.out),
                                            !.handed = b.out],
                                  "messageReceiver", b.out)
        ELSE /\ HandOver(<<messages>>, nextId + Len(messages))
             /\ fx' = Did([f EXCEPT !.handed = <<messages>>],
                          "messageReceiver", messages)
             /\ UNCHANGED <<items, timerId, timeouts>>

\* _internalMessageReceiver(err, response): the answer to a receiveMessage call.
\* code is err.code ("" when err is null), n is response.Messages.length
_internalMessageReceiver(code, n) ==
    /\ ~crashed
    /\ inflight > 0
    /\ IF code # ""
       THEN /\ fx' = _handleErrors(
                        IF isAuthenticationError(code)
                        THEN "SQSAuthenticationError" ELSE "SQSError",
                        [NoFx("receiveError") EXCEPT !.code = code])
            /\ authTimers' = authTimers + (IF isAuthenticationError(code) THEN 1 ELSE 0)
            /\ UNCHANGED <<items, timerId, timeouts, handedTimes, pending, nextId,
                           deliveries>>
       ELSE IF n > 0
       THEN /\ deliveries < MaxDeliveries
            /\ deliveries' = deliveries + 1
            /\ nextId' = nextId + n
            /\ _internalMessageProcessor([i \in 1..n |-> Message(nextId + i - 1)])
            /\ UNCHANGED authTimers
       ELSE /\ fx' = _poll(stopped, NoFx("receiveEmpty"))
            /\ UNCHANGED <<items, timerId, timeouts, handedTimes, pending, nextId,
                           deliveries, authTimers>>
    /\ inflight' = inflight - 1 + fx'.recv
    /\ UNCHANGED <<cfgVars, stopped, acks, starts, crashed, batcherHistory>>

\* the timer of setTimeout(this._poll, authenticationErrorTimeout) fires: _poll
\* runs with the Timeout object as 'this', whose 'stopped' and 'sqs' are
\* undefined, so it takes the receive branch and this.sqs.receiveMessage throws a
\* TypeError out of the timer callback.  The process ends, unless the
\* application handles uncaught exceptions.
authenticationErrorTimeout ==
    /\ ~crashed
    /\ authTimers > 0
    /\ authTimers' = authTimers - 1
    /\ fx' = Did([NoFx("authTimer") EXCEPT !.pollDec = 1, !.thrown = 1],
                 "TypeError", <<>>)
    /\ crashed' \in BOOLEAN
    /\ UNCHANGED <<cfgVars, stopped, inflight, items, timerId, timeouts, nextId,
                   deliveries, handedTimes, pending, acks, starts,
                   batcherHistory>>

\* the flush timer fires: _flush(), whose 'flush' goes to _onFlush, which calls
\* messageReceiver
bufferTimeout ==
    /\ ~crashed
    /\ \E t \in timeouts.live :
         LET b == timeoutFires(t)
         IN  /\ items' = b.items
             /\ timerId' = b.timerId
             /\ timeouts' = b.timeouts
             /\ HandOver(b.out, nextId)
             /\ fx' = DidEach([NoFx("bufferTimer") EXCEPT !.flushN = Len(b.out),
                                                          !.handed = b.out],
                              "messageReceiver", b.out)
    /\ UNCHANGED <<cfgVars, stopped, inflight, authTimers, nextId, deliveries,
                   acks, starts, crashed, batcherHistory>>

\* while (messages.length) { messages.splice(0, 10) ... }: what the loop of
\* _deleteMessageBatch leaves in the array it is given
RECURSIVE spliced(_)
spliced(messages) ==
    IF Len(messages) = 0
    THEN messages
    ELSE spliced(slice(messages, DeleteBatchLimit, Len(messages)))

\* _deleteMessageBatch(message, ...): the loop works on the caller's array
messageCopy_sameArray(message) ==
    [message |-> spliced(message), messageCopy |-> spliced(message)]

\* let messageCopy = [].concat(message); _deleteMessageBatch(messageCopy, ...):
\* the caller's array and the new array, once the loop has run on the new one
messageCopy(message) ==
    [message |-> message,
     messageCopy |-> spliced([i \in DOMAIN message |-> message[i]])]

\* deleteMessage(message), up to the SQS calls it issues.  arg is the kind of
\* the argument, message the caller's messages; the result is the record of the
\* acknowledgment and the effects of the handler
deleteMessageCall(arg, message, stp) ==
    IF arg = "null"
    THEN LET f == _poll(stp, _handleErrors("ConsumerDeleteError", NoFx("ack")))
         IN  [ack |-> Booked([NewAck(arg, message) EXCEPT !.settled = TRUE], f), f |-> f]
    ELSE IF arg = "error"
    THEN LET f == _poll(stp, _handleErrors("ProcessingError", NoFx("ack")))
         IN  [ack |-> Booked([NewAck(arg, message) EXCEPT !.settled = TRUE], f), f |-> f]
    ELSE IF arg = "single" \/ Len(message) = 1
    THEN [ack |-> [NewAck(arg, message) EXCEPT
                        !.one = "pending", !.handle = message[1].ReceiptHandle],
          f |-> Did([NoFx("ack") EXCEPT !.delOne = 1], "deleteMessage", <<>>)]
    ELSE LET calls == _deleteMessageBatch(message)
             arrays == messageCopy(message)
             f0 == DidEach([NoFx("ack") EXCEPT !.delBatch = Len(calls)],
                           "deleteMessageBatch", [c \in DOMAIN calls |-> <<>>])
             a0 == [NewAck(arg, arrays.message) EXCEPT
                        !.messageCopy = arrays.messageCopy,
                        !.chunks = [c \in DOMAIN calls |->
                                        [Entries |-> calls[c], st |-> "pending"]]]
         IN  IF Len(calls) = 0
             THEN LET f == deleteCallback(arrays.message, FALSE, stp, f0)
                  IN  [ack |-> Booked([a0 EXCEPT !.settled = TRUE], f), f |-> f]
             ELSE [ack |-> a0, f |-> f0]

\* the application calls done(...) for the set 'set' it was handed: with
\* nothing, with an Error, with the first message alone, with the array
deleteMessage(set, arg) ==
    /\ ~crashed
    /\ set \in pending
    /\ LET message == IF arg = "single" THEN <<set[1]>> ELSE set
           r == deleteMessageCall(arg, message, stopped)
       IN  AckStep(r.ack, r.ack, r.f)
    /\ pending' = pending \ {set}
    /\ inflight' = inflight + fx'.recv
    /\ UNCHANGED <<cfgVars, stopped, authTimers, items, timerId, timeouts, nextId,
                   deliveries, handedTimes, starts, crashed, batcherHistory>>

\* the answer to the sqs.deleteMessage call of acknowledgment a
_deleteMessageOne(a, err) ==
    /\ ~crashed
    /\ a \in acks
    /\ a.one = "pending"
    /\ LET f == [deleteCallback(a.message, err, stopped, NoFx("deleteDone")) EXCEPT
                    !.deleted = IF err THEN {} ELSE {a.handle}]
       IN  AckStep(a, Booked([a EXCEPT !.one = IF err THEN "failed" ELSE "ok",
                                       !.settled = TRUE], f), f)
    /\ inflight' = inflight + fx'.recv
    /\ UNCHANGED <<cfgVars, stopped, authTimers, items, timerId, timeouts, nextId,
                   deliveries, handedTimes, pending, starts, crashed,
                   batcherHistory>>

\* the outcomes of a deleteMessageBatch call: its err and the entries in
\* data.Failed (none, the first entry, every entry)
BatchOutcomes == {"ok", "error", "failedFirst", "failedAll"}

Failed(entries, outcome) ==
    IF outcome = "failedFirst" THEN {entries[1].ReceiptHandle}
    ELSE IF outcome = "failedAll" THEN {e.ReceiptHandle : e \in Range(entries)}
    ELSE {}

\* _deleteMessageBatchPromise: TRUE when the promise resolves, FALSE when it
\* rejects (err, or data.Failed.length)
_deleteMessageBatchPromise(err, failed) ==
    IF err THEN FALSE
    ELSE IF Cardinality(failed) # 0 THEN FALSE
    ELSE TRUE

\* the answer to a deleteMessageBatch call, where a failure cancels the calls of
\* the acknowledgment that are still to be answered
deleteMessageBatchDone_cancelsOnFailure(a, c, outcome) ==
    /\ ~crashed
    /\ a \in acks
    /\ c \in DOMAIN a.chunks
    /\ a.chunks[c].st = "pending"
    /\ LET entries == a.chunks[c].Entries
           failed == Failed(entries, outcome)
           ok == _deleteMessageBatchPromise(outcome = "error", failed)
           settles == promiseAllSettles(a, c, ok)
           f0 == [NoFx("deleteBatchDone") EXCEPT
                    !.deleted = IF outcome = "error" THEN {}
                                ELSE {e.ReceiptHandle : e \in Range(entries)} \ failed]
           f == IF settles THEN deleteCallback(a.message, ~ok, stopped, f0) ELSE f0
           a2 == [a EXCEPT !.chunks = [d \in DOMAIN a.chunks |->
                                         IF d = c \/ ~ok
                                         THEN [a.chunks[d] EXCEPT
                                                 !.st = IF ok THEN "ok" ELSE "failed"]
                                         ELSE a.chunks[d]],
                           !.settled = @ \/ settles]
       IN  AckStep(a, Booked(a2, f), f)
    /\ inflight' = inflight + fx'.recv
    /\ UNCHANGED <<cfgVars, stopped, authTimers, items, timerId, timeouts, nextId,
                   deliveries, handedTimes, pending, starts, crashed,
                   batcherHistory>>

\* the answer to deleteMessageBatch call c of acknowledgment a
deleteMessageBatchDone(a, c, outcome) ==
    /\ ~crashed
    /\ a \in acks
    /\ c \in DOMAIN a.chunks
    /\ a.chunks[c].st = "pending"
    /\ LET entries == a.chunks[c].Entries
           failed == Failed(entries, outcome)
           ok == _deleteMessageBatchPromise(outcome = "error", failed)
           settles == promiseAllSettles(a, c, ok)
           f0 == [NoFx("deleteBatchDone") EXCEPT
                    !.deleted = IF outcome = "error" THEN {}
                                ELSE {e.ReceiptHandle : e \in Range(entries)} \ failed]
           f == IF settles THEN deleteCallback(a.message, ~ok, stopped, f0) ELSE f0
       IN  AckStep(a, Booked([a EXCEPT !.chunks[c].st = IF ok THEN "ok" ELSE "failed",
                                       !.settled = @ \/ settles], f), f)
    /\ inflight' = inflight + fx'.recv
    /\ UNCHANGED <<cfgVars, stopped, authTimers, items, timerId, timeouts, nextId,
                   deliveries, handedTimes, pending, starts, crashed,
                   batcherHistory>>

Next ==
    \/ start
    \/ stop
    \/ \E code \in ErrCodes : _internalMessageReceiver(code, 0)
    \/ \E n \in {0} \cup RecvCounts : _internalMessageReceiver("", n)
    \/ authenticationErrorTimeout
    \/ bufferTimeout
    \/ \E set \in pending, arg \in {"null", "error", "single", "array"} :
            deleteMessage(set, arg)
    \/ \E a \in acks, err \in BOOLEAN : _deleteMessageOne(a, err)
    \/ \E a \in acks : \E c \in DOMAIN a.chunks, o \in BatchOutcomes :
            deleteMessageBatchDone(a, c, o)

Spec == Init /\ [][Next]_vars

(***************************************************************************)
(* A subscriber of the outcome notifications that calls stop().  emit() is *)
(* synchronous: the subscriber runs inside the handler of the              *)
(* acknowledgment, at the place of the emit.                               *)
(***************************************************************************)
\* stop() has been called in the course of handler effects f
stopCalled(f) == \E k \in DOMAIN f.log : f.log[k].ev = "stop"

\* _poll() on the receiver, after what the subscribers did to this.stopped
_pollStopping(stp, f) ==
    _poll(stp \/ stopCalled(f), f)

\* _handleErrors(error), whose subscriber calls stop()
_handleErrorsStopping(error, f) ==
    Did(_handleErrors(error, f), "stop", <<>>)

\* _messageProcessed with its two statements in the other order
_messageProcessedStopping_pollsFirst(message, stp, f) ==
    Did(Did([_pollStopping(stp, f) EXCEPT !.processedEv = @ + 1],
            "message:processed", message), "stop", <<>>)

\* emit 'message:processed', whose subscriber calls stop(), then _poll()
_messageProcessedStopping(message, stp, f) ==
    _pollStopping(stp, Did(Did([f EXCEPT !.processedEv = @ + 1],
                               "message:processed", message), "stop", <<>>))

\* the callback of the deletion, with that subscriber
deleteCallbackStopping(message, err, stp, f) ==
    IF err
    THEN _pollStopping(stp, _handleErrorsStopping("SQSError", f))
    ELSE _messageProcessedStopping(message, stp, f)

\* deleteMessage() with nothing or with an Error, with that subscriber
deleteMessageStopping(set, arg) ==
    /\ ~crashed
    /\ set \in pending
    /\ arg \in {"null", "error"}
    /\ LET f == _pollStopping(stopped,
                   _handleErrorsStopping(IF arg = "null" THEN "ConsumerDeleteError"
                                         ELSE "ProcessingError", NoFx("ack")))
           a == Booked([NewAck(arg, set) EXCEPT !.settled = TRUE], f)
       IN  AckStep(a, a, f)
    /\ pending' = pending \ {set}
    /\ inflight' = inflight + fx'.recv
    /\ stopped' = (stopped \/ stopCalled(fx'))
    /\ UNCHANGED <<cfgVars, authTimers, items, timerId, timeouts, nextId,
                   deliveries, handedTimes, starts, crashed, batcherHistory>>

\* the answer to the sqs.deleteMessage call of acknowledgment a, with that
\* subscriber
_deleteMessageOneStopping(a, err) ==
    /\ ~crashed
    /\ a \in acks
    /\ a.one = "pending"
    /\ LET f == [deleteCallbackStopping(a.message, err, stopped, NoFx("deleteDone")) EXCEPT
                    !.deleted = IF err THEN {} ELSE {a.handle}]
       IN  AckStep(a, Booked([a EXCEPT !.one = IF err THEN "failed" ELSE "ok",
                                       !.settled = TRUE], f), f)
    /\ inflight' = inflight + fx'.recv
    /\ stopped' = (stopped \/ stopCalled(fx'))
    /\ UNCHANGED <<cfgVars, authTimers, items, timerId, timeouts, nextId,
                   deliveries, handedTimes, pending, starts, crashed,
                   batcherHistory>>

\* the answer to deleteMessageBatch call c of acknowledgment a that settles
\* Promise.all, with that subscriber
deleteMessageBatchDoneStopping(a, c, outcome) ==
    /\ ~crashed
    /\ a \in acks
    /\ c \in DOMAIN a.chunks
    /\ a.chunks[c].st = "pending"
    /\ LET entries == a.chunks[c].Entries
           failed == Failed(entries, outcome)
           ok == _deleteMessageBatchPromise(outcome = "error", failed)
           f0 == [NoFx("deleteBatchDone") EXCEPT
                    !.deleted = IF outcome = "error" THEN {}
                                ELSE {e.ReceiptHandle : e \in Range(entries)} \ failed]
           f == deleteCallbackStopping(a.message, ~ok, stopped, f0)
       IN  /\ promiseAllSettles(a, c, ok)
           /\ AckStep(a, Booked([a EXCEPT !.chunks[c].st = IF ok THEN "ok" ELSE "failed",
                                          !.settled = TRUE], f), f)
    /\ inflight' = inflight + fx'.recv
    /\ stopped' = (stopped \/ stopCalled(fx'))
    /\ UNCHANGED <<cfgVars, authTimers, items, timerId, timeouts, nextId,
                   deliveries, handedTimes, pending, starts, crashed,
                   batcherHistory>>

StoppingNext ==
    \/ Next
    \/ \E set \in pending, arg \in {"null", "error"} : deleteMessageStopping(set, arg)
    \/ \E a \in acks, err \in BOOLEAN : _deleteMessageOneStopping(a, err)
    \/ \E a \in acks : \E c \in DOMAIN a.chunks, o \in BatchOutcomes :
            deleteMessageBatchDoneStopping(a, c, o)

StoppingSpec == Init /\ [][StoppingNext]_vars

(***************************************************************************)
(* ConstructorSpec: new Receiver(options) and new Memory(options) on the   *)
(* option sets below.                                                      *)
(***************************************************************************)
Given(S) == {<<>>} \cup {<<v>> : v \in S}

OptionSets ==
    {[given |-> <<>>, queueUrl |-> <<>>, messageReceiver |-> <<>>,
      batchSize |-> <<>>, bufferSize |-> <<>>, bufferTimeout |-> <<>>]}
    \cup [given : {<<1>>},
          queueUrl : Given({1}),
          messageReceiver : Given({1}),
          batchSize : Given(0..MaxBatchOption),
          bufferSize : Given(0..MaxBufferOption),
          bufferTimeout : Given({0, 10000})]

ConstructorInit ==
    /\ options \in OptionSets
    /\ made = NotMade
    /\ batchSize = 0
    /\ bufferSize = 0
    /\ stopped = TRUE
    /\ inflight = 0
    /\ authTimers = 0
    /\ items = <<>>
    /\ timerId = FALSE
    /\ timeouts = NoTimeouts
    /\ nextId = 1
    /\ deliveries = 0
    /\ handedTimes = <<>>
    /\ pending = {}
    /\ acks = {}
    /\ starts = 0
    /\ crashed = FALSE
    /\ flushes = <<>>
    /\ added = <<>>
    /\ fx = NoFx("init")

notConstructed == <<stopped, inflight, authTimers, items, timerId, timeouts,
                    nextId, deliveries, handedTimes, pending, acks, starts,
                    crashed, flushes, added, options>>

\* new Receiver(options): _validate, then the fields; stopped = true
newReceiver ==
    /\ made = NotMade
    /\ LET e == Receiver_validate(options)
       IN  IF e # NotMade
           THEN /\ made' = e
                /\ fx' = [NoFx("newReceiver") EXCEPT !.thrown = 1]
                /\ UNCHANGED <<batchSize, bufferSize>>
           ELSE /\ made' = Instance("Receiver")
                /\ fx' = NoFx("newReceiver")
                /\ batchSize' = batchSizeOf(options)
                /\ bufferSize' = bufferSizeOf(options)
    /\ UNCHANGED notConstructed

\* new Memory(options): _validate, then the fields; items = [], timerId = null
newMemory ==
    /\ made = NotMade
    /\ LET e == Memory_validate(options)
       IN  IF e # NotMade
           THEN /\ made' = e
                /\ fx' = [NoFx("newMemory") EXCEPT !.thrown = 1]
                /\ UNCHANGED bufferSize
           ELSE /\ made' = Instance("Memory")
                /\ fx' = NoFx("newMemory")
                /\ bufferSize' = bufferSizeOf(options)
    /\ UNCHANGED <<batchSize, notConstructed>>

ConstructorNext == newReceiver \/ newMemory

ConstructorSpec == ConstructorInit /\ [][ConstructorNext]_vars

(***************************************************************************)
(* Properties.                                                             *)
(***************************************************************************)
\* the acknowledgments under way and the one that came to its end in the last
\* step
AllAcks == acks \cup Range(fx.acked)

\* the times message i is in the buffer
InBuffer(i) == Cardinality({j \in DOMAIN items : items[j] = Message(i)})

\* C1: every message a successful receive returned is either in the buffer or
\* was handed to messageReceiver, never both, and was handed exactly once if at
\* all; without a buffer it is handed in the handler of its receive, in the set
\* it was received in; with a buffer the messages waiting in it are below
\* capacity and have a live flush timer.
C1_HandedExactlyOnce ==
    /\ DOMAIN handedTimes = 1..(nextId - 1)
    /\ \A i \in 1..(nextId - 1) : handedTimes[i] + InBuffer(i) = 1
    /\ bufferSize = 0 =>
         /\ items = <<>>
         /\ \A i \in 1..(nextId - 1) : handedTimes[i] = 1
         /\ fx.op = "receive" => fx.handed = <<fx.msgs>>
    /\ bufferSize # 0 =>
         /\ Len(items) < bufferSize
         /\ items # <<>> => timerId
         /\ fx.flushN = Len(fx.handed)

\* C1 witness: with a buffer, a receive overflows the buffer: one flush is
\* handed over and the rest of the received set stays buffered
C1_Witness ==
    /\ bufferSize # 0
    /\ fx.op = "receive"
    /\ Len(fx.handed) = 1
    /\ items # <<>>
    /\ \E i \in DOMAIN fx.msgs : fx.msgs[i] \in Range(fx.handed[1])
    /\ \E i \in DOMAIN fx.msgs : fx.msgs[i] \in Range(items)

\* C2: the flush payloads in emission order, followed by the items still
\* buffered, are the added items in add order.
C2_FlushesThenBufferAreAdded ==
    /\ Concat(flushes) \o items = AddedItems
    /\ AddedItems = [i \in 1..Len(AddedItems) |-> i]
    /\ items = <<>> => Concat(flushes) = AddedItems

\* C2 witness: an array add overflowed the buffer after earlier flushes and
\* left a remainder buffered
C2_Witness ==
    /\ fx.op = "addArray"
    /\ fx.flushN >= 1
    /\ Len(flushes) > fx.flushN
    /\ items # <<>>

\* C3: no flush payload is longer than bufferSize.
C3_FlushWithinCapacity ==
    \A k \in DOMAIN flushes : Len(flushes[k]) <= bufferSize

\* C3 witness: one add of an array longer than twice the capacity
C3_Witness ==
    /\ fx.op = "addArray"
    /\ fx.flushN >= 2
    /\ Len(added[Len(added)]) > 2 * bufferSize

\* the acknowledgments of a set of two or more messages
MultiAcks == {a \in AllAcks : a.arg = "array" /\ Len(a.message) >= 2}

\* the acknowledgments of one message, given alone or as a one-element set
SingleAcks == {a \in AllAcks : a.arg = "single" \/ (a.arg = "array" /\ Len(a.message) = 1)}

FailedChunks(a) == {c \in DOMAIN a.chunks : a.chunks[c].st = "failed"}

\* C4: for an acknowledgment of two or more messages 'message:processed' was
\* emitted once if every deleteMessageBatch call has succeeded and was not
\* emitted otherwise, and one failure notification was emitted if a call has
\* failed, however many did, and none otherwise.
C4_ProcessedIffAllChunksSucceed ==
    \A a \in MultiAcks :
        /\ a.processedEv =
             (IF \A c \in DOMAIN a.chunks : a.chunks[c].st = "ok" THEN 1 ELSE 0)
        /\ a.errorEv + a.procErrEv = (IF FailedChunks(a) # {} THEN 1 ELSE 0)

\* C4 witness: an acknowledgment whose deleteMessageBatch calls have all been
\* answered, two of them with a failure
C4_Witness ==
    \E a \in MultiAcks :
        /\ ~AckOpen(a)
        /\ Cardinality(FailedChunks(a)) >= 2
        /\ a.errorEv = 1

\* the entry of a message in a deleteMessageBatch call
EntryOf(m) == [Id |-> m.MessageId, ReceiptHandle |-> m.ReceiptHandle]

\* C5: an acknowledgment of n >= 2 messages issues ceil(n/10) deleteMessageBatch
\* calls; call c carries the entries of messages 10(c-1)+1 .. min(10c, n) of the
\* set, in order, so between 1 and 10 entries; and no call carries more than 10.
C5_ChunksOfTen ==
    /\ \A a \in MultiAcks :
         LET n == Len(a.message)
         IN  /\ Len(a.chunks) = (n + 9) \div 10
             /\ a.one = "none"
             /\ \A c \in DOMAIN a.chunks :
                  LET first == 10 * (c - 1) + 1
                      last == IF 10 * c < n THEN 10 * c ELSE n
                  IN  /\ Len(a.chunks[c].Entries) = last - first + 1
                      /\ Len(a.chunks[c].Entries) \in 1..10
                      /\ \A j \in DOMAIN a.chunks[c].Entries :
                           a.chunks[c].Entries[j] = EntryOf(a.message[first + j - 1])
    /\ \A a \in AllAcks : \A c \in DOMAIN a.chunks : Len(a.chunks[c].Entries) <= 10
    /\ fx.op = "ack" /\ fx.delBatch > 0 =>
         \E a \in MultiAcks : Len(a.chunks) = fx.delBatch /\ ~a.settled

\* C5 witness: the acknowledgment of a set of more than 10 messages, just made
C5_Witness ==
    /\ fx.op = "ack"
    /\ fx.delBatch = 2
    /\ \E a \in MultiAcks : Len(a.message) > 10 /\ Len(a.chunks) = 2

\* C6: the acknowledgment of one message (alone or as a one-element set) issues
\* one deleteMessage call with the receipt handle of the message and no
\* deleteMessageBatch call; answered with success, 'message:processed' was
\* emitted once, the message is deleted and one poll decision was made; answered
\* with a failure, one error was reported, 'message:processed' was not emitted,
\* nothing was deleted and one poll decision was made.
C6_SingleDelete ==
    /\ \A a \in SingleAcks :
         /\ a.one # "none"
         /\ a.handle = a.message[1].ReceiptHandle
         /\ a.chunks = <<>>
         /\ a.one = "pending" =>
              a.processedEv = 0 /\ a.errorEv + a.procErrEv = 0 /\ a.pollDec = 0
         /\ a.one = "ok" =>
              a.processedEv = 1 /\ a.errorEv + a.procErrEv = 0 /\ a.pollDec = 1
         /\ a.one = "failed" =>
              a.processedEv = 0 /\ a.errorEv + a.procErrEv = 1 /\ a.pollDec = 1
    /\ fx.op = "ack" /\ fx.delOne > 0 => fx.delOne = 1 /\ fx.delBatch = 0
    /\ fx.op = "deleteDone" =>
         /\ Len(fx.acked) = 1
         /\ fx.acked[1] \in SingleAcks
         /\ fx.deleted = (IF fx.acked[1].one = "ok" THEN {fx.acked[1].handle} ELSE {})
         /\ fx.pollDec = 1

\* C6 witness: the deleteMessage call of a one-element set was answered with a
\* failure, and the poll decision issued a receive
C6_Witness ==
    /\ fx.op = "deleteDone"
    /\ fx.recv = 1
    /\ \E a \in Range(fx.acked) : a.arg = "array" /\ a.one = "failed"

\* C7: an acknowledgment with an error value or with nothing issues no delete
\* call, emits one 'processing:error' and neither 'error' nor
\* 'message:processed', deletes nothing and makes one poll decision.
C7_ErrorAckDeletesNothing ==
    \A a \in AllAcks :
        a.arg \in {"null", "error"} =>
            /\ a.one = "none"
            /\ a.chunks = <<>>
            /\ a.procErrEv = 1
            /\ a.errorEv = 0
            /\ a.processedEv = 0
            /\ a.pollDec = 1
            /\ fx.op = "ack"
            /\ fx.delOne = 0 /\ fx.delBatch = 0 /\ fx.deleted = {}
            /\ fx.procErrEv = 1 /\ fx.errorEv = 0 /\ fx.processedEv = 0
            /\ fx.pollDec = 1

\* C7 witness: an acknowledgment with an error value, whose poll decision
\* issued a receive
C7_Witness ==
    /\ fx.recv = 1
    /\ \E a \in Range(fx.acked) : a.arg = "error"

\* C8: an acknowledgment makes its poll decision when its callback runs, at
\* most once, and every acknowledgment whose delete calls are all answered has
\* made it.
C8_AckAlwaysPolls ==
    \A a \in AllAcks :
        /\ a.pollDec <= 1
        /\ a.settled <=> a.pollDec = 1
        /\ ~AckOpen(a) => a.pollDec = 1

\* C8 witness: an acknowledgment of several chunks, all answered, one of them
\* with a failure, that made its poll decision
C8_Witness ==
    \E a \in Range(fx.acked) :
        /\ Len(a.chunks) >= 2
        /\ FailedChunks(a) # {}
        /\ a.pollDec = 1

\* C9: a poll decision made while the receiver is stopped emits 'stopped' and
\* issues no receive, and no receive is issued before the first start().
C9_StopEndsPolling ==
    /\ stopped /\ fx.pollDec > 0 => fx.stoppedEv = fx.pollDec /\ fx.recv = 0
    /\ starts = 0 => inflight = 0 /\ fx.recv = 0

\* C10: a receiver started once and never stopped always has a receive
\* outstanding or something under way that ends in a poll: a back-off timer, a
\* flush timer, a set the application is to acknowledge, a deletion whose
\* callback is to run.
C10_LoopNeverIdle ==
    starts = 1 /\ ~stopped =>
        \/ inflight > 0
        \/ authTimers > 0
        \/ timerId
        \/ pending # {}
        \/ \E a \in acks : ~a.settled

\* C11: the handler of a receive that failed with a failure that is not of the
\* authentication class emits one 'error' and makes one poll decision: a
\* receive if the receiver is not stopped, 'stopped' otherwise; no back-off
\* timer is involved.
C11_GenericErrorPolls ==
    fx.op = "receiveError" /\ ~isAuthenticationError(fx.code) =>
        /\ fx.errorEv = 1
        /\ fx.pollDec = 1
        /\ fx.recv = (IF stopped THEN 0 ELSE 1)
        /\ fx.stoppedEv = (IF stopped THEN 1 ELSE 0)

\* C12: the handler of a receive that failed with an authentication failure
\* emits one 'error' and issues no receive and makes no poll decision; the
\* back-off timer it started makes one poll decision on the receiver when it
\* fires: a receive if the receiver is not stopped, 'stopped' otherwise, and no
\* exception.
C12_AuthBackoffThenPoll ==
    /\ fx.op = "receiveError" /\ isAuthenticationError(fx.code) =>
         fx.errorEv = 1 /\ fx.recv = 0 /\ fx.pollDec = 0
    /\ fx.op = "authTimer" =>
         /\ fx.pollDec = 1
         /\ fx.thrown = 0
         /\ fx.recv = (IF stopped THEN 0 ELSE 1)
         /\ fx.stoppedEv = (IF stopped THEN 1 ELSE 0)

\* C13: with a buffer, the handler of a receive that returned messages makes a
\* poll decision once it has handed the set to the buffer: a receive is issued
\* in that handler if the receiver is not stopped.
C13_BufferedRepollsAfterAdd ==
    bufferSize # 0 /\ fx.op = "receive" =>
        /\ fx.pollDec = 1
        /\ fx.recv = (IF stopped THEN 0 ELSE 1)

SetUnderWay == pending # {} \/ \E a \in acks : ~a.settled

AddCall == Len(added') = Len(added) + 1

LastAdded == added[Len(added)]

\* the flushes the step emits
NewFlushes == SubSeq(flushes', Len(flushes) + 1, Len(flushes'))

\* C16: an add of an array of n >= 1 items to a buffer of c < bufferSize items
\* emits floor((c + n) / bufferSize) flushes within the call, each of bufferSize
\* items, and leaves (c + n) mod bufferSize items buffered; the flushes
\* followed by the items left are the c items followed by the n items, so
\* nothing is dropped, and what is left has a live timer to flush it.
C16_ArrayAddFlushesFullBatches ==
    [][AddCall /\ fx'.op = "addArray" /\ Len(LastAdded') >= 1
          /\ Len(items) < bufferSize =>
        LET c == Len(items)
            n == Len(LastAdded')
        IN  /\ fx'.flushN = (c + n) \div bufferSize
            /\ Len(flushes') = Len(flushes) + fx'.flushN
            /\ SubSeq(flushes', 1, Len(flushes)) = flushes
            /\ \A j \in DOMAIN NewFlushes : Len(NewFlushes[j]) = bufferSize
            /\ Len(items') = (c + n) % bufferSize
            /\ Concat(NewFlushes) \o items' = items \o LastAdded'
            /\ items' # <<>> => timerId' /\ timeouts'.live # {}
      ]_vars

\* C16 witness: a items then b items were added, a < bufferSize < a + b <
\* 2 * bufferSize: one flush of bufferSize items in the second add and one of
\* a + b - bufferSize items when the timer fired
C16_Witness ==
    /\ fx.op = "timer"
    /\ Len(added) = 2
    /\ Len(added[1]) >= 2
    /\ Len(added[1]) < bufferSize
    /\ Len(AddedItems) > bufferSize
    /\ Len(AddedItems) < 2 * bufferSize
    /\ Len(flushes) = 2
    /\ Len(flushes[1]) = bufferSize
    /\ Len(flushes[2]) = Len(AddedItems) - bufferSize
    /\ items = <<>>

\* C17: an add of a single item to a buffer of c items emits no flush and
\* leaves the timer live if c + 1 < bufferSize, and emits one flush, of the
\* bufferSize items, if c + 1 = bufferSize, after which the buffer is empty
\* and no timeout is live; so bufferSize single adds to an empty buffer emit
\* one flush, in the last of them.
C17_SingleAddsFlushAtCapacity ==
    [][AddCall /\ fx'.op = "add" /\ Len(items) < bufferSize =>
        LET item == LastAdded'[1]
        IN  IF Len(items) + 1 < bufferSize
            THEN /\ fx'.flushN = 0
                 /\ flushes' = flushes
                 /\ items' = Append(items, item)
                 /\ timerId'
            ELSE /\ fx'.flushN = 1
                 /\ flushes' = Append(flushes, Append(items, item))
                 /\ Len(flushes'[Len(flushes')]) = bufferSize
                 /\ items' = <<>>
                 /\ ~timerId'
                 /\ timeouts'.live = {}
      ]_vars

\* C17 witness: three single items added to an empty buffer of capacity 3: one
\* flush in all, of the three items, in the third add, and no timer left
C17_Witness ==
    /\ bufferSize = 3
    /\ fx.op = "add"
    /\ fx.flushN = 1
    /\ added = <<<<1>>, <<2>>, <<3>>>>
    /\ flushes = <<<<1, 2, 3>>>>
    /\ items = <<>>
    /\ ~timerId
    /\ timeouts.live = {}

\* C18 as stated: an add that leaves between 1 and bufferSize - 1 items in the
\* buffer emitted no flush, and a timeout flush leaves the buffer empty with no
\* timer.
C18_PartialAddEmitsNoFlush ==
    /\ fx.op \in {"add", "addArray"} /\ 0 < Len(items) /\ Len(items) < bufferSize =>
         fx.flushN = 0
    /\ fx.op = "timer" => items = <<>> /\ ~timerId

\* the step is the firing of the flush timeout
TimeoutStep == fx'.op = "timer" /\ timeouts' # timeouts

\* C18 amended: an add of n items to a buffer of c items with 0 < c + n <
\* bufferSize emits no flush and leaves the c + n items buffered with a live
\* timer; whatever an add leaves buffered is in none of the flushes it emitted
\* and has a live timer; buffered items leave the buffer only at the head of
\* the next flush, which is the timeout's or that of an add that fills the
\* buffer; and the timeout flush carries exactly the buffered items and leaves
\* the buffer empty with no timer.
C18_PartialAddWaitsForTimerOrCapacity ==
    [][/\ AddCall /\ 0 < Len(items) + Len(LastAdded')
             /\ Len(items) + Len(LastAdded') < bufferSize =>
            /\ fx'.flushN = 0
            /\ flushes' = flushes
            /\ items' = items \o LastAdded'
       /\ AddCall /\ items' # <<>> =>
            /\ timerId'
            /\ Len(items') < bufferSize
            /\ \A j \in DOMAIN NewFlushes :
                 Range(NewFlushes[j]) \cap Range(items') = {}
       /\ TimeoutStep =>
            /\ flushes' = Append(flushes, items)
            /\ items' = <<>>
            /\ ~timerId'
            /\ timeouts'.live = {}
       /\ items # <<>> /\ slice(items', 0, Len(items)) # items =>
            /\ NewFlushes # <<>>
            /\ slice(NewFlushes[1], 0, Len(items)) = items
            /\ TimeoutStep \/ (AddCall /\ Len(NewFlushes[1]) = bufferSize)
      ]_vars

\* C18 witness: the timeout flushed the items of two adds that had left the
\* buffer below capacity
C18_Witness ==
    /\ fx.op = "timer"
    /\ Len(added) = 2
    /\ Len(flushes) = 1
    /\ flushes[1] = AddedItems
    /\ Len(flushes[1]) = 2
    /\ Len(flushes[1]) < bufferSize
    /\ items = <<>>
    /\ ~timerId

\* C19: at most one flush timeout is live, it is the one timerId holds, and
\* timerId is null when none is; an add made while a timeout is live that
\* emits no flush leaves that timeout as it is, and an add sets a timeout only
\* if none is live or if it flushed, so the live timeout is the one set by the
\* first add after the last flush.
C19_OneTimerFixedDeadline ==
    /\ [](/\ Cardinality(timeouts.live) <= 1
          /\ timerId <=> timeouts.live # {}
          /\ timerId => timeouts.live = {timeouts.id})
    /\ [][AddCall =>
            /\ timeouts.live # {} /\ fx'.flushN = 0 => timeouts' = timeouts
            /\ timeouts.live = {} \/ fx'.flushN > 0 =>
                 timeouts'.live \subseteq {Len(added')}
         ]_vars

\* C19 witness: two adds were made after the add that set the live timeout
C19_Witness ==
    /\ fx.op \in {"add", "addArray"}
    /\ timerId
    /\ timeouts.live = {timeouts.id}
    /\ timeouts.id + 2 = Len(added)
    /\ Len(items) >= 2

\* C20: start() on a stopped receiver clears 'stopped', makes one poll decision
\* that issues one receive, and emits nothing; start() on a running receiver
\* issues no receive, emits nothing and leaves the state as it is.
C20_StartOnlyWhenStopped ==
    [][fx'.op = "start" =>
         IF stopped
         THEN /\ ~stopped'
              /\ fx' = [NoFx("start") EXCEPT
                          !.pollDec = 1, !.recv = 1,
                          !.log = <<[ev |-> "receiveMessage", arg |-> <<>>]>>]
              /\ inflight' = inflight + 1
              /\ UNCHANGED <<cfgVars, authTimers, items, timerId, timeouts, nextId,
                             deliveries, handedTimes, pending, acks, crashed>>
         ELSE /\ fx' = NoFx("start")
              /\ UNCHANGED <<cfgVars, stopped, inflight, authTimers, items, timerId,
                             timeouts, nextId, deliveries, handedTimes, pending,
                             acks, starts, crashed>>
      ]_vars

\* C20 witness: start() was called on a running receiver whose receive is
\* outstanding
C20_Witness ==
    /\ fx = NoFx("start")
    /\ ~stopped
    /\ starts = 1
    /\ inflight = 1

\* the notifications and calls of the last handler that are ev
Logged(ev) == {k \in DOMAIN fx.log : fx.log[k].ev = ev}

\* C21: the handler of a receive that returned messages emits
\* 'message:received' once, first of all, with the whole set the queue service
\* delivered, and hands sets to messageReceiver only after it; no other handler
\* (an empty receive, a failed receive, any other) emits it.
C21_ReceivedOnceBeforeHandOver ==
    /\ fx.op = "receive" =>
         /\ fx.receivedEv = 1
         /\ Logged("message:received") = {1}
         /\ fx.log[1].arg # <<>>
         /\ fx.log[1].arg =
              [i \in 1..Len(fx.log[1].arg) |->
                  Message(nextId - Len(fx.log[1].arg) + i - 1)]
         /\ fx.log[1].arg = fx.msgs
         /\ bufferSize = 0 => Logged("messageReceiver") = {2}
    /\ fx.op # "receive" =>
         fx.receivedEv = 0 /\ Logged("message:received") = {}

\* C21 witness: with a buffer, a receive of a full batch whose add flushed:
\* 'message:received' with the ten messages, then messageReceiver
C21_Witness ==
    /\ bufferSize # 0
    /\ fx.op = "receive"
    /\ Len(fx.log) = 2
    /\ fx.log[1].ev = "message:received"
    /\ Len(fx.log[1].arg) = 10
    /\ fx.log[2].ev = "messageReceiver"

\* nothing of a receiver or of a buffer exists: no field is set, no receive
\* is issued, no timer is set
NothingMade ==
    /\ batchSize = 0
    /\ bufferSize = 0
    /\ inflight = 0
    /\ fx.recv = 0
    /\ timeouts = NoTimeouts

\* C22: new Receiver() without options, without queueUrl or without
\* messageReceiver throws: 'Missing required options' without options, else
\* the 'Missing required option' that names queueUrl if it is missing and
\* messageReceiver otherwise; no receiver is made and no receive is issued.
C22_ReceiverRequiresOptions ==
    made.by = "Receiver"
        /\ (\/ options.given = <<>>
            \/ Falsy(options.queueUrl)
            \/ Falsy(options.messageReceiver)) =>
        /\ made.kind = "Error"
        /\ fx.thrown = 1
        /\ options.given = <<>> =>
             made.message = "Missing required options"
        /\ options.given # <<>> =>
             /\ made.message = "Missing required option [option]."
             /\ made.option = (IF Falsy(options.queueUrl)
                               THEN "queueUrl" ELSE "messageReceiver")
        /\ NothingMade

\* C22 witness: new Receiver({}) with a batchSize out of range: the error
\* names queueUrl
C22_Witness ==
    /\ made.by = "Receiver"
    /\ options.given # <<>>
    /\ options.queueUrl = <<>>
    /\ options.messageReceiver = <<>>
    /\ options.batchSize = <<11>>
    /\ made.option = "queueUrl"

\* C23: new Receiver(options) with the required options, a batchSize omitted
\* or in 1..10 and a bufferSize that is configured and not above the batchSize
\* in effect (options.batchSize || 1) throws the error that names bufferSize.
C23_BufferNotAboveBatchRejected ==
    made.by = "Receiver"
        /\ options.given # <<>>
        /\ ~Falsy(options.queueUrl)
        /\ ~Falsy(options.messageReceiver)
        /\ (options.batchSize = <<>> \/ options.batchSize[1] \in 1..10)
        /\ ~Falsy(options.bufferSize)
        /\ options.bufferSize[1] <= batchSizeOf(options) =>
        /\ made.kind = "Error"
        /\ made.option = "bufferSize"

\* C24: new Memory() without options, without bufferSize or without
\* bufferTimeout throws: 'Missing required options' without options, else the
\* 'Missing required option' that names bufferSize if it is missing and
\* bufferTimeout otherwise; no buffer is made.
C24_MemoryRequiresOptions ==
    made.by = "Memory"
        /\ (\/ options.given = <<>>
            \/ Falsy(options.bufferSize)
            \/ Falsy(options.bufferTimeout)) =>
        /\ made.kind = "Error"
        /\ fx.thrown = 1
        /\ options.given = <<>> =>
             made.message = "Missing required options"
        /\ options.given # <<>> =>
             /\ made.message = "Missing required option [option]."
             /\ made.option = (IF Falsy(options.bufferSize)
                               THEN "bufferSize" ELSE "bufferTimeout")
        /\ NothingMade

\* C24 witness: new Memory({}): the error names bufferSize
C24_Witness ==
    /\ made.by = "Memory"
    /\ options.given # <<>>
    /\ options.bufferSize = <<>>
    /\ options.bufferTimeout = <<>>
    /\ made.option = "bufferSize"

\* C25: between the operations of the buffer it holds at most bufferSize
\* items, and a flush timer is live exactly when it holds at least one item
\* and fewer than bufferSize.
C25_TimerIffPartlyFilled ==
    /\ Len(items) <= bufferSize
    /\ timerId <=> (0 < Len(items) /\ Len(items) < bufferSize)
    /\ timeouts.live # {} <=> (0 < Len(items) /\ Len(items) < bufferSize)

\* C26: while 'flush' is delivered the buffer holds nothing, and an item the
\* subscriber adds during the notification is kept: it is buffered with a live
\* timer (or flushed in a batch of its own, by a buffer of capacity 1) and is
\* not in the batch that was being flushed; no item is lost and none is
\* emitted twice.
C26_FlushEmptiesBeforeNotifying ==
    fx.op \in {"addAdding", "timerAdding"} =>
        /\ \A k \in Logged("itemsDuringFlush") : fx.log[k].arg = <<>>
        /\ Concat(flushes) \o items = AddedItems
        /\ \/ items = added[Len(added)] /\ timerId
           \/ bufferSize = 1 /\ flushes[Len(flushes)] = added[Len(added)]

\* C27: at most one receive call is outstanding against the queue service.
C27_OneReceiveOutstanding ==
    inflight <= 1

\* the last two entries of the log of the last handler
LastEv == fx.log[Len(fx.log)].ev

LastButOneEv == fx.log[Len(fx.log) - 1].ev

\* C28: stop() sets 'stopped' and nothing else: it issues and emits nothing
\* and leaves receives, timers, buffer, handed sets and acknowledgments as they
\* are.  On a stopped receiver the answer to a receive still emits
\* 'message:received' and passes every message on (to the buffer or to
\* messageReceiver), the flush timer still hands the buffered items to
\* messageReceiver, an acknowledgment with messages still issues its delete
\* calls, and the 'stopped' of an acknowledgment's poll decision is the last
\* thing its handler emits, right after its outcome notification.
C28_StopCancelsNothing ==
    /\ [](stopped =>
            /\ fx.op = "receive" =>
                 /\ fx.receivedEv = 1
                 /\ \A i \in DOMAIN fx.msgs :
                      \/ fx.msgs[i] \in Range(items)
                      \/ \E k \in DOMAIN fx.handed : fx.msgs[i] \in Range(fx.handed[k])
            /\ fx.op = "bufferTimer" =>
                 /\ Len(fx.handed) = 1
                 /\ fx.handed[1] # <<>>
                 /\ fx.handed[1] \in pending
                 /\ items = <<>>
            /\ fx.op = "ack" /\ fx.acked = <<>> =>
                 /\ fx.delOne + fx.delBatch >= 1
                 /\ fx.stoppedEv = 0
            /\ fx.op \in {"ack", "deleteDone", "deleteBatchDone"} /\ fx.pollDec > 0 =>
                 /\ fx.stoppedEv = 1
                 /\ fx.recv = 0
                 /\ Len(fx.log) >= 2
                 /\ LastEv = "stopped"
                 /\ LastButOneEv \in {"message:processed", "error", "processing:error"})
    /\ [][fx'.op = "stop" =>
            /\ stopped'
            /\ fx' = NoFx("stop")
            /\ UNCHANGED <<cfgVars, inflight, authTimers, items, timerId, timeouts,
                           nextId, deliveries, handedTimes, pending, acks, starts,
                           crashed>>
         ]_vars

\* C28 witness: with a buffer, on a stopped receiver, the deleteMessageBatch
\* call of an acknowledgment was answered with success: the messages are
\* deleted, 'message:processed' then 'stopped' are emitted
C28_Witness ==
    /\ stopped
    /\ bufferSize # 0
    /\ fx.op = "deleteBatchDone"
    /\ fx.deleted # {}
    /\ Len(fx.log) = 2
    /\ LastButOneEv = "message:processed"
    /\ LastEv = "stopped"

\* the delete and delete-batch calls of acknowledgment a that failed
FailedCalls(a) ==
    Cardinality(FailedChunks(a)) + (IF a.one = "failed" THEN 1 ELSE 0)

\* C29: no handler throws; a failed receive emits one 'error' and no
\* 'processing:error'; every failed delete or delete-batch call of an
\* acknowledgment is emitted once on 'error' and never on 'processing:error';
\* an acknowledgment made with nothing or with an Error emits one
\* 'processing:error' and no 'error'; no other handler emits either of them.
C29_FailuresOnOneChannelNeverThrown ==
    /\ fx.thrown = 0
    /\ fx.op = "receiveError" => fx.errorEv = 1 /\ fx.procErrEv = 0
    /\ fx.op \notin {"receiveError", "ack", "deleteDone", "deleteBatchDone"} =>
         fx.errorEv = 0 /\ fx.procErrEv = 0
    /\ \A a \in AllAcks :
         /\ a.errorEv = FailedCalls(a)
         /\ a.procErrEv = (IF a.arg \in {"null", "error"} THEN 1 ELSE 0)

\* the ReceiptHandles of the entries of a deleteMessageBatch call
HandlesOf(chunk) == {e.ReceiptHandle : e \in Range(chunk.Entries)}

\* acknowledgment a with call c answered: the other calls are as they were
Answered(a, a2, c) ==
    /\ a2.message = a.message
    /\ DOMAIN a2.chunks = DOMAIN a.chunks
    /\ a.chunks[c].st = "pending"
    /\ a2.chunks[c].st \in {"ok", "failed"}
    /\ a2.chunks[c].Entries = a.chunks[c].Entries
    /\ \A d \in DOMAIN a.chunks : d # c => a2.chunks[d] = a.chunks[d]

\* C30: an acknowledgment of more than ten messages issues all its
\* deleteMessageBatch calls in the deleteMessage() call itself, so that all are
\* outstanding before one is answered.  The answer to a call issues no delete
\* call and changes the state of that call alone, from pending to succeeded or
\* failed: the calls still outstanding stay outstanding and a failed call is
\* never issued again.  A call that succeeds deletes its messages also when
\* another call of the acknowledgment has failed, and an acknowledgment with a
\* failed call has emitted no 'message:processed'.
C30_ChunksIssuedTogetherNoRetry ==
    /\ [](\A a \in AllAcks : FailedChunks(a) # {} => a.processedEv = 0)
    /\ [](fx.op \in {"deleteDone", "deleteBatchDone"} =>
            fx.delOne = 0 /\ fx.delBatch = 0)
    /\ [][fx'.op = "ack" /\ fx'.delBatch >= 2 =>
            \E a \in acks' \ acks :
                /\ Len(a.chunks) = fx'.delBatch
                /\ \A c \in DOMAIN a.chunks : a.chunks[c].st = "pending"
         ]_vars
    /\ [][fx'.op = "deleteBatchDone" =>
            \E a \in acks : \E c \in DOMAIN a.chunks :
                /\ \E a2 \in (acks' \cup Range(fx'.acked)) \ (acks \ {a}) :
                      Answered(a, a2, c)
                /\ acks' \ {a2 \in acks' : a2.message = a.message} = acks \ {a}
                /\ fx'.deleted \subseteq HandlesOf(a.chunks[c])
                /\ \A a2 \in acks' \cup Range(fx'.acked) :
                      Answered(a, a2, c) /\ a2.chunks[c].st = "ok" =>
                          fx'.deleted = HandlesOf(a.chunks[c])
         ]_vars

\* C30 witness: in an acknowledgment of more than ten messages one
\* deleteMessageBatch call has failed, which emitted 'error', and the other
\* call then succeeds: its messages are deleted and nothing is emitted
C30_Witness ==
    /\ fx.op = "deleteBatchDone"
    /\ fx.deleted # {}
    /\ fx.processedEv = 0
    /\ fx.errorEv = 0
    /\ fx.delBatch = 0
    /\ \E a \in Range(fx.acked) :
         /\ Len(a.chunks) >= 2
         /\ FailedChunks(a) # {}
         /\ \E c \in DOMAIN a.chunks :
              a.chunks[c].st = "ok" /\ fx.deleted = HandlesOf(a.chunks[c])
         /\ a.errorEv = 1
         /\ a.processedEv = 0

\* the handlers of an acknowledgment: deleteMessage() and the answers to its
\* delete calls
AckOps == {"ack", "deleteDone", "deleteBatchDone"}

\* C31: an acknowledgment makes at most one poll decision and issues at most
\* one receive, exactly one decision once its callback has run, whatever its
\* argument and however many of its delete calls failed; no handler of an
\* acknowledgment makes two decisions; and a step that raises the number of
\* outstanding receives raises it by one and is a start() on a stopped receiver
\* or the one poll decision of an acknowledgment.
C31_OnePollDecisionPerAck ==
    /\ [](\A a \in AllAcks :
            /\ a.recv <= a.pollDec
            /\ a.pollDec = (IF a.settled THEN 1 ELSE 0)
            /\ a.arg \in {"null", "error"} => a.settled)
    /\ [](fx.op \in AckOps => fx.pollDec <= 1 /\ fx.recv <= fx.pollDec)
    /\ [][inflight' > inflight =>
            /\ inflight' = inflight + 1
            /\ fx'.recv = 1 /\ fx'.pollDec = 1
            /\ \/ fx'.op = "start" /\ stopped /\ starts' = starts + 1
               \/ /\ fx'.op \in AckOps
                  /\ \E a \in acks' \cup Range(fx'.acked) :
                        /\ a.settled /\ a.recv = 1
                        /\ \A b \in acks : b.message = a.message => ~b.settled
         ]_vars

\* C31 witness: the second failed deleteMessageBatch call of an acknowledgment
\* is answered: the acknowledgment made its one poll decision at the first
\* failure, and this answer makes none
C31_Witness ==
    /\ fx.op = "deleteBatchDone"
    /\ fx.pollDec = 0
    /\ fx.recv = 0
    /\ \E a \in Range(fx.acked) :
         /\ Cardinality(FailedChunks(a)) >= 2
         /\ a.pollDec = 1
         /\ a.recv = 1

\* the outcome notifications of an acknowledgment
Outcomes == {"message:processed", "processing:error", "error"}

\* the places of the log of the last handler where ev is
At(ev) == {k \in DOMAIN fx.log : fx.log[k].ev = ev}

\* C32: the handler of an acknowledgment that makes the poll decision emits
\* one outcome notification ('message:processed', 'processing:error' or
\* 'error') first and makes the decision (a receive or 'stopped') last; and when
\* the subscriber of that notification calls stop(), the decision emits
\* 'stopped' and issues no receive, on a receiver that was running as on one
\* that was stopped.
C32_OutcomeBeforePollDecision ==
    /\ fx.op \in AckOps /\ fx.pollDec > 0 =>
         /\ fx.log[1].ev \in Outcomes
         /\ fx.log[Len(fx.log)].ev \in {"receiveMessage", "stopped"}
         /\ \A k \in DOMAIN fx.log :
              /\ fx.log[k].ev \in Outcomes => k = 1
              /\ fx.log[k].ev \in {"receiveMessage", "stopped"} => k = Len(fx.log)
    /\ fx.op \in AckOps /\ fx.pollDec = 0 =>
         \A k \in DOMAIN fx.log :
             fx.log[k].ev \in {"deleteMessage", "deleteMessageBatch"}
    /\ At("stop") # {} =>
         /\ fx.op \in AckOps
         /\ At("stop") = {2}
         /\ Len(fx.log) = 3
         /\ fx.log[3].ev = "stopped"
         /\ fx.stoppedEv = 1
         /\ fx.recv = 0
         /\ stopped

\* C32 witness: on a running receiver whose only receive was answered, the
\* delete call of an acknowledgment succeeds, the subscriber of
\* 'message:processed' calls stop(), and the poll decision emits 'stopped':
\* no receive is outstanding
C32_Witness ==
    /\ fx.op \in {"deleteDone", "deleteBatchDone"}
    /\ Len(fx.log) = 3
    /\ fx.log[1].ev = "message:processed"
    /\ fx.log[2].ev = "stop"
    /\ fx.log[3].ev = "stopped"
    /\ fx.recv = 0
    /\ stopped
    /\ starts = 1
    /\ inflight = 0

\* the acknowledgments that went through _deleteMessageBatch
BatchAcks == {a \in AllAcks : Len(a.chunks) >= 1}

\* the entries of deleteMessageBatch calls, one call after the other
RECURSIVE Flat(_)
Flat(chunks) ==
    IF Len(chunks) = 0 THEN <<>> ELSE chunks[1].Entries \o Flat(Tail(chunks))

\* C33: deleteMessage() with a set of two or more messages leaves the caller's
\* array as it was handed over, while the array _deleteMessageBatch works on is
\* emptied: at every later moment of the acknowledgment the caller's array
\* still holds, in order, the messages of all its deleteMessageBatch calls, and
\* 'message:processed' is emitted with that whole array.
C33_AckLeavesCallersSetAsItWas ==
    /\ [](\A a \in BatchAcks :
            /\ Len(a.message) >= 2
            /\ Entries(a.message) = Flat(a.chunks)
            /\ a.messageCopy = <<>>)
    /\ [](fx.op = "deleteBatchDone" /\ fx.processedEv = 1 =>
            \E a \in Range(fx.acked) :
                /\ fx.log[1] = [ev |-> "message:processed", arg |-> a.message]
                /\ Entries(fx.log[1].arg) = Flat(a.chunks))
    /\ [][fx'.op = "ack" /\ fx'.delBatch >= 1 =>
            \E set \in pending \ pending' : \E a \in acks' \ acks :
                /\ a.message = set
                /\ Len(a.chunks) = fx'.delBatch
         ]_vars

\* C33 witness: the last deleteMessageBatch call of an acknowledgment of more
\* than ten messages succeeds and 'message:processed' is emitted with all of
\* them
C33_Witness ==
    /\ fx.op = "deleteBatchDone"
    /\ fx.processedEv = 1
    /\ \E a \in Range(fx.acked) :
         /\ Len(a.chunks) >= 2
         /\ Len(a.message) > DeleteBatchLimit
         /\ a.messageCopy = <<>>
         /\ fx.log[1].ev = "message:processed"
         /\ fx.log[1].arg = a.message

\* every add() call so far carried at least one item
NonEmptyAdds == \A k \in DOMAIN added : added[k] # <<>>

\* C34: when every add() call carried an item, no batch emitted on 'flush' is
\* empty, whether it was flushed at capacity, by the overflow recursion or by
\* the timer; and a live timeout always has items to flush: it is the one
\* this.timerId names, and none is live while the buffer is empty, so the timer
\* a capacity flush cancelled does not fire afterwards.
C34_NoEmptyFlush ==
    NonEmptyAdds =>
        /\ \A j \in DOMAIN flushes : flushes[j] # <<>>
        /\ timeouts.live # {} =>
             /\ items # <<>>
             /\ timerId
             /\ timeouts.live = {timeouts.id}
        /\ items = <<>> => ~timerId /\ timeouts.live = {}

\* C34 witness: one add() of an array larger than twice the capacity, to a
\* buffer that held an item and had its timer running: the overflow recursion
\* flushed two full batches, the second flush cancelled nothing, the rest
\* waited for a new timer, which fired and flushed it
C34_Witness ==
    /\ NonEmptyAdds
    /\ Len(added) = 2
    /\ Len(added[1]) = 1
    /\ Len(flushes) = 3
    /\ Len(flushes[1]) = bufferSize
    /\ Len(flushes[2]) = bufferSize
    /\ 0 < Len(flushes[3]) /\ Len(flushes[3]) < bufferSize
    /\ fx.op = "timer"
    /\ items = <<>>
    /\ timeouts.live = {}

====
